---- MODULE Spec2Model ----
(***************************************************************************)
(* Model of percolator's protein-level probability estimator               *)
(* (src/src/ProteinProbEstimator.cpp) and of the peptide/protein relation   *)
(* index (src/src/IntraSetRelation.cpp).                                    *)
(*                                                                          *)
(* Four specifications share the variables:                                 *)
(*   Spec      calculateProteinProb(true): the grid search over alpha/beta  *)
(*             followed by the final inference pass;                        *)
(*   SpecCalc  calculateProteinProb(false): one inference pass and          *)
(*             buildOutput, over bounded inference results;                 *)
(*   SpecRel   IntraSetRelation: registerRel and getPepSites calls;         *)
(*   SpecTable initialize called repeatedly, populateTPandFNLists.          *)
(***************************************************************************)
EXTENDS Integers, Sequences, FiniteSets, TLC

VARIABLES
  alpha, beta,          \* ProteinProbEstimator::alpha, ::beta
  proteinGraph,         \* ProteinProbEstimator::proteinGraph (NoGraph = null)
  output,               \* the fidoOutput returned by calculateProteinProb
  pc,                   \* position of the running call
  a, b,                 \* loop variables of gridSearchAlphaBeta
  lower_a, upper_a,     \* locals of gridSearchAlphaBeta
  lower_b, upper_b,
  bestSoFar,            \* local gridPoint bestSoFar of gridSearchAlphaBeta
  alpha0, beta0,        \* history: the constructor's alpha_par and beta_par
  nCells,               \* history: number of grid cells whose objective was computed
  evalAlphas, evalBetas,\* history: coordinates of the cells entered so far
  seenMax,              \* history: greatest objective computed so far
  seenMin,              \* history: smallest objective computed so far
  numPeptides,          \* IntraSetRelation::numPeptides
  numProteins,          \* IntraSetRelation::numProteins
  prot2pep,             \* IntraSetRelation::prot2pep
  maxn,                 \* value returned by the last getPepSites call
  calls,                \* history: the registerRel calls made, in order
  peptideScores,        \* ProteinProbEstimator::peptideScores (NoScores = null)
  proteinsToPeptides,   \* ProteinProbEstimator::proteinsToPeptides
  scheduleGridSearch,   \* value returned by the last initialize call
  inputs,               \* history: the sets of scores passed to initialize, in order
  point,                \* the gridPoint last filled by populateTPandFNLists
  tpSeen,               \* history: the pairs of lists computed for the cells of the search
  xml                   \* what writeOutputToXML did

vars == << alpha, beta, proteinGraph, output, pc, a, b, lower_a, upper_a,
           lower_b, upper_b, bestSoFar, alpha0, beta0, nCells, evalAlphas,
           evalBetas, seenMax, seenMin, numPeptides, numProteins,
           prot2pep, maxn, calls, peptideScores, proteinsToPeptides,
           scheduleGridSearch, inputs, point, tpSeen, xml >>

estimatorVars == << alpha, beta, proteinGraph, output, pc, a, b, lower_a,
                    upper_a, lower_b, upper_b, bestSoFar, alpha0, beta0,
                    nCells, evalAlphas, evalBetas, seenMax,
                    seenMin >>

relVars == << numPeptides, numProteins, prot2pep, maxn, calls >>

tableVars == << peptideScores, proteinsToPeptides, scheduleGridSearch, inputs >>

cellVars == << point, tpSeen >>

(***************************************************************************)
(* Bounds of the model.                                                     *)
(***************************************************************************)
MaxClasses == 3   \* equivalence classes in an inference result (SpecCalc)
MaxPep == 3       \* posterior-error estimates are 0..MaxPep tenths
MaxMse == 1       \* values of calculateMSE_FDR drawn for a grid cell: 0..MaxMse
MaxRoc == 1       \* values of calculateROC50 drawn for a grid cell: 0..MaxRoc
MaxCalls == 3     \* registerRel calls in a behaviour of SpecRel
MaxPeptides == 3  \* peptides in all the scores passed to initialize (SpecTable)
MaxBuilds == 2    \* initialize calls in a behaviour of SpecTable

(***************************************************************************)
(* IEEE-754 binary64 values in [0, 1), round-to-nearest-even addition.      *)
(* A double x is the exact integer x * 2^59 (every double in [2^-7, 1) is   *)
(* such an integer), held as three base-2^20 limbs << n2, n1, n0 >> so that  *)
(* no intermediate value leaves 32 bits.                                    *)
(***************************************************************************)
Limb == 1048576

RECURSIVE BitLen(_)
BitLen(n) == IF n = 0 THEN 0 ELSE 1 + BitLen(n \div 2)

RECURSIVE Pow2(_)
Pow2(d) == IF d = 0 THEN 1 ELSE 2 * Pow2(d - 1)

\* Round the exact value t to 53 significant bits, ties to even.
DblRound(t) ==
  LET len  == IF t[1] > 0 THEN 40 + BitLen(t[1])
              ELSE IF t[2] > 0 THEN 20 + BitLen(t[2]) ELSE BitLen(t[3])
      d    == IF len > 53 THEN len - 53 ELSE 0
      q    == Pow2(d)
      r    == t[3] % q
      half == q \div 2
      up   == d > 0 /\ (r > half \/ (r = half /\ (t[3] \div q) % 2 = 1))
      m0   == t[3] - r + (IF up THEN q ELSE 0)
      m1   == t[2] + (m0 \div Limb)
  IN  << t[1] + (m1 \div Limb), m1 % Limb, m0 % Limb >>

\* x + y in double arithmetic
DblAdd(x, y) ==
  LET s0 == x[3] + y[3]
      s1 == x[2] + y[2] + (s0 \div Limb)
      s2 == x[1] + y[1] + (s1 \div Limb)
  IN  DblRound(<< s2, s1 % Limb, s0 % Limb >>)

\* x <= y
DblLeq(x, y) ==
  \/ x[1] < y[1]
  \/ x[1] = y[1] /\ x[2] < y[2]
  \/ x[1] = y[1] /\ x[2] = y[2] /\ x[3] <= y[3]

\* the double literals of the source
LowerA == << 5242, 922746, 922747 >>       \* 0.01
UpperA == << 398458, 922746, 922752 >>     \* 0.76
LowerB == << 0, 0, 0 >>                    \* 0.0
UpperB == << 419430, 419430, 419456 >>     \* 0.80
Step   == << 26214, 419430, 419432 >>      \* 0.05
\* the value -1 that marks a parameter as not set
Unset == << -1, 0, 0 >>
\* values a caller passes to the constructor to pin a parameter
PinnedAlpha == << 52428, 838860, 838864 >> \* 0.1
PinnedBeta  == << 157286, 419430, 419424 >>\* 0.3

(***************************************************************************)
(* Objective values.  mse and roc50 are integers; the objective is kept in  *)
(* units of 1/(100 * ObjScale), so (1 - lambda) * mse - lambda * roc50 is    *)
(* exact.  numeric_limits<double>::min() is the smallest positive normal    *)
(* double: it is above 0 and below every positive objective value, which    *)
(* are multiples of ObjScale, so its image is 1.                            *)
(***************************************************************************)
Lambda == 15          \* lambda = 0.15, in hundredths
ObjScale == 2
DblMin == 1           \* numeric_limits<double>::min()
MinusOne == -100 * ObjScale   \* the double -1 in objective units

ObjectiveFn(lambda, mse_fdr, roc50) ==
  ObjScale * ((100 - lambda) * mse_fdr - lambda * roc50)

MseVals == 0..MaxMse
RocVals == 0..MaxRoc

(***************************************************************************)
(* gridPoint                                                                *)
(***************************************************************************)
\* a member that no constructor has written
Indeterminate == << -2, 0, 0 >>

\* gridPoint::gridPoint()
GridPointDefault ==
  [alpha |-> Indeterminate, beta |-> Indeterminate, objectiveFnValue |-> MinusOne,
   truePositives |-> << >>, falsePositives |-> << >>]

\* gridPoint::gridPoint(alpha_par, beta_par)
GridPoint(alpha_par, beta_par) ==
  [alpha |-> alpha_par, beta |-> beta_par, objectiveFnValue |-> MinusOne,
   truePositives |-> << >>, falsePositives |-> << >>]

\* the two assertions of gridPoint::operator>
GreaterAsserts(lhs, rhs) ==
  lhs.objectiveFnValue # MinusOne /\ rhs.objectiveFnValue # MinusOne

\* gridPoint::operator>
Greater(lhs, rhs) == lhs.objectiveFnValue > rhs.objectiveFnValue

(***************************************************************************)
(* Inference results and buildOutput                                        *)
(***************************************************************************)
NoGraph == [alpha |-> Unset, beta |-> Unset, probabilityR |-> << >>,
            groupProtNames |-> << >>, null |-> TRUE]
NoOutput == [peps |-> << >>, protein_ids |-> << >>, qvalues |-> << >>,
             built |-> FALSE]

PepVals == 0..MaxPep
Groups == { {"P1"}, {"P2", "P3"} }

\* what GroupPowerBigraph::getProteinProbs can leave in probabilityR and
\* groupProtNames: parallel arrays of at most n classes
InferenceResults(n) ==
  UNION { { [probabilityR |-> p, groupProtNames |-> g] :
              p \in [1..k -> PepVals], g \in [1..k -> Groups] } : k \in 0..n }

\* new GroupPowerBigraph(RealRange(alpha,1,alpha), RealRange(beta,1,beta), gamma)
\* after read() and getProteinProbs() produced the result res
NewGraph(al, be, res) ==
  [alpha |-> al, beta |-> be, probabilityR |-> res.probabilityR,
   groupProtNames |-> res.groupProtNames, null |-> FALSE]

Perms(n) == { f \in [1..n -> 1..n] : \A i, j \in 1..n : f[i] = f[j] => i = j }

\* Array<double>::sort(): the index permutations that put s in ascending order
SortIndices(s) ==
  { f \in Perms(Len(s)) : \A i, j \in 1..Len(s) : i < j => s[f[i]] <= s[f[j]] }

RECURSIVE GCD(_, _)
GCD(x, y) == IF y = 0 THEN x ELSE GCD(y, x % y)

\* the quotient n / d of non-negative n and positive d, in lowest terms
Quot(n, d) == LET g == GCD(n, d) IN << n \div g, d \div g >>

RECURSIVE SumTo(_, _)
SumTo(s, k) == IF k = 0 THEN 0 ELSE SumTo(s, k - 1) + s[k]

\* qvalues[k] of buildOutput; k counts from 1 here, from 0 in the source
QValueAt_divK(sorted, k) == Quot(SumTo(sorted, k), IF k = 1 THEN 1 ELSE k - 1)
QValueAt(sorted, k) == Quot(SumTo(sorted, k), k)

\* protein_ids[k] of buildOutput
ProteinIdAt_noPerm(graph, indices, k) == graph.groupProtNames[k]
ProteinIdAt(graph, indices, k) == graph.groupProtNames[indices[k]]

\* buildOutput, past its assertion, with indices the result of sorted.sort()
buildOutput(graph, indices) ==
  LET n == Len(graph.probabilityR)
      sorted == [k \in 1..n |-> graph.probabilityR[indices[k]]]
  IN  [peps |-> sorted,
       protein_ids |-> [k \in 1..n |-> ProteinIdAt(graph, indices, k)],
       qvalues |-> [k \in 1..n |-> QValueAt(sorted, k)],
       built |-> TRUE]

(***************************************************************************)
(* IntraSetRelation: std::map members as functions on their sets of keys    *)
(***************************************************************************)
Peptides == {"pepA", "pepB"}
RelProteins == {"P1", "P2"}

\* a std::map without entries
EmptyMap == [k \in {} |-> 0]

\* if(m.count(key)==0) m[key]=1; else m[key]++;
IncrCount_setOne(m, key) ==
  [k \in DOMAIN m \cup {key} |-> IF k = key THEN 1 ELSE m[k]]
IncrCount(m, key) ==
  [k \in DOMAIN m \cup {key} |->
     IF k = key THEN (IF key \in DOMAIN m THEN m[key] + 1 ELSE 1) ELSE m[k]]

\* m[key] of a std::map of sets: the entry is created empty when missing
Subscript(m, key) ==
  [k \in DOMAIN m \cup {key} |-> IF k \in DOMAIN m THEN m[k] ELSE {}]

(***************************************************************************)
(* Scores, the protein-to-peptides table and populateTPandFNLists          *)
(***************************************************************************)
\* ScoreHolder::label: 1 for a target, anything else (here -1) for a decoy
Labels == {1, -1}
\* the keys of a std::map<string, ...> in the order its iterator visits them
ProteinOrder == << "P1", "P2", "P3" >>
\* proteins a peptide can name in pPSM->proteinIds
TableProteins == {"P1", "P2"}

\* a ScoreHolder: its label and the proteinIds of its PSM
ScoreHolders == [label : Labels, proteinIds : SUBSET TableProteins \ {{}}]

\* Scores::scores of at most n peptides
Fullsets(n) == UNION { [1..k -> ScoreHolders] : k \in 0..n }

\* peptideScores = 0
NoScores == [null |-> TRUE, scores |-> << >>]
\* peptideScores = fullset
ScoresPtr(fullset) == [null |-> FALSE, scores |-> fullset]

\* a ScoreHolder* is << n, i >>: element i of the scores of the n-th
\* initialize call
Deref(ref) == inputs[ref[1]][ref[2]]

\* the pointers pushed for protein prot while the first n peptides of
\* fullset are visited, in order
RECURSIVE PushedRefs(_, _, _, _)
PushedRefs(fullset, build, prot, n) ==
  IF n = 0 THEN << >>
  ELSE LET before == PushedRefs(fullset, build, prot, n - 1)
       IN  IF prot \in fullset[n].proteinIds
             THEN Append(before, << build, n >>) ELSE before

\* the proteins named by some peptide of fullset
NamedProteins(fullset) == UNION { fullset[i].proteinIds : i \in 1..Len(fullset) }

\* populateProteinsToPeptidesTable: entries are inserted or extended, the
\* table is not emptied first
populateProteinsToPeptidesTable(fullset, build, table) ==
  [prot \in DOMAIN table \cup NamedProteins(fullset) |->
     (IF prot \in DOMAIN table THEN table[prot] ELSE << >>)
       \o PushedRefs(fullset, build, prot, Len(fullset))]

\* the flags tp and fp after the inner loop of populateTPandFNLists
HasTarget(peptides) == \E i \in 1..Len(peptides) : Deref(peptides[i]).label = 1
HasDecoy_unlessTarget(peptides) ==
  /\ \E i \in 1..Len(peptides) : Deref(peptides[i]).label # 1
  /\ ~HasTarget(peptides)
HasDecoy(peptides) == \E i \in 1..Len(peptides) : Deref(peptides[i]).label # 1

\* the proteins of a fidoOutput
OutputProteins(out) == UNION { out.protein_ids[k] : k \in 1..Len(out.protein_ids) }

\* populateTPandFNLists(point, output, toBeTested) past its two assertions
populateTPandFNLists_ofOutput(pt, out, table) ==
  [pt EXCEPT
     !.truePositives = SelectSeq(ProteinOrder,
        LAMBDA prot : prot \in DOMAIN table /\ prot \in OutputProteins(out)
                      /\ HasTarget(table[prot])),
     !.falsePositives = SelectSeq(ProteinOrder,
        LAMBDA prot : prot \in DOMAIN table /\ prot \in OutputProteins(out)
                      /\ HasDecoy(table[prot]))]
populateTPandFNLists(pt, out, table) ==
  [pt EXCEPT
     !.truePositives = SelectSeq(ProteinOrder,
        LAMBDA prot : prot \in DOMAIN table /\ HasTarget(table[prot])),
     !.falsePositives = SelectSeq(ProteinOrder,
        LAMBDA prot : prot \in DOMAIN table /\ HasDecoy(table[prot]))]

\* the assertions of populateTPandFNLists
ListsEmpty(pt) == Len(pt.truePositives) = 0 /\ Len(pt.falsePositives) = 0

\* the elements of a sequence
Range(seq) == { seq[i] : i \in 1..Len(seq) }

\* no writeOutputToXML call yet
NoXml == [status |-> "none", proteins |-> << >>]

(***************************************************************************)
(* ProteinProbEstimator: construction                                       *)
(***************************************************************************)
\* ProteinProbEstimator::ProteinProbEstimator(alpha_par, beta_par); the
\* IntraSetRelation members start empty
Init ==
  /\ alpha \in {Unset, PinnedAlpha}
  /\ beta \in {Unset, PinnedBeta}
  /\ alpha0 = alpha
  /\ beta0 = beta
  /\ proteinGraph = NoGraph
  /\ output = NoOutput
  /\ pc = "idle"
  /\ a = Indeterminate
  /\ b = Indeterminate
  /\ lower_a = Indeterminate
  /\ upper_a = Indeterminate
  /\ lower_b = Indeterminate
  /\ upper_b = Indeterminate
  /\ bestSoFar = GridPointDefault
  /\ nCells = 0
  /\ evalAlphas = {}
  /\ evalBetas = {}
  /\ seenMax = 0
  /\ seenMin = 0
  /\ numPeptides = EmptyMap
  /\ numProteins = EmptyMap
  /\ prot2pep = EmptyMap
  /\ maxn = 0
  /\ calls = << >>
  /\ peptideScores = NoScores
  /\ proteinsToPeptides = EmptyMap
  /\ scheduleGridSearch = "none"
  /\ inputs = << >>
  /\ point = GridPointDefault
  /\ tpSeen = {}
  /\ xml = NoXml

(***************************************************************************)
(* initialize, setDefaultParameters                                         *)
(***************************************************************************)
\* ProteinProbEstimator::initialize(fullset)
initialize(fullset) ==
  /\ peptideScores' = ScoresPtr(fullset)
  /\ inputs' = Append(inputs, fullset)
  /\ proteinsToPeptides' =
       populateProteinsToPeptidesTable(fullset, Len(inputs) + 1, proteinsToPeptides)
  /\ scheduleGridSearch' = IF alpha = Unset \/ beta = Unset THEN "true" ELSE "false"
  /\ UNCHANGED estimatorVars
  /\ UNCHANGED relVars
  /\ UNCHANGED cellVars
  /\ UNCHANGED xml

\* the sets of scores handed to an estimator that goes on to calculate:
\* three peptides for two proteins, and a single target peptide of P2
CalcFullsets ==
  { << [label |-> 1, proteinIds |-> {"P1"}],
       [label |-> -1, proteinIds |-> {"P2"}],
       [label |-> 1, proteinIds |-> {"P1", "P2"}] >>,
    << [label |-> 1, proteinIds |-> {"P2"}] >> }

\* the one initialize call before calculateProteinProb
InitializeCall ==
  /\ pc = "idle"
  /\ peptideScores.null
  /\ \E fullset \in CalcFullsets : initialize(fullset)

\* the values setDefaultParameters assigns to alpha and beta
DefaultAlpha == << 52428, 838860, 838864 >>   \* 0.1
DefaultBeta  == << 5242, 922746, 922747 >>    \* 0.01

(***************************************************************************)
(* calculateProteinProb(true): gridSearchAlphaBeta, then the final pass     *)
(***************************************************************************)
\* inference results the engine can return during a grid search
GridInference == InferenceResults(0) \cup
  { [probabilityR |-> << 1 >>, groupProtNames |-> << {"P1"} >>] }

\* the bounds of the two loops, from the values set before the search
LowerAFor(al, be) == IF be # Unset THEN be ELSE IF al # Unset THEN al ELSE LowerA
UpperAFor(al, be) == IF be # Unset THEN be ELSE IF al # Unset THEN al ELSE UpperA

\* calculateProteinProb(true) up to the first test of the outer loop
GridSearchBegin ==
  /\ pc = "idle"
  /\ ~peptideScores.null
  /\ bestSoFar' = [GridPointDefault EXCEPT !.objectiveFnValue = DblMin]
  /\ lower_a' = LowerAFor(alpha, beta)
  /\ upper_a' = UpperAFor(alpha, beta)
  /\ lower_b' = LowerB
  /\ upper_b' = UpperB
  /\ a' = LowerAFor(alpha, beta)
  /\ pc' = "outer"
  /\ UNCHANGED << alpha, beta, proteinGraph, output, b, alpha0, beta0, nCells,
                  evalAlphas, evalBetas, seenMax, seenMin >>
  /\ UNCHANGED relVars
  /\ UNCHANGED tableVars
  /\ UNCHANGED cellVars
  /\ UNCHANGED xml

\* the test of the outer loop: enter the inner loop, or leave the search
GridOuterLoop ==
  /\ pc = "outer"
  /\ IF DblLeq(a, upper_a)
       THEN b' = lower_b /\ pc' = "inner"
       ELSE b' = b /\ pc' = "final"
  /\ UNCHANGED << alpha, beta, proteinGraph, output, a, lower_a, upper_a,
                  lower_b, upper_b, bestSoFar, alpha0, beta0, nCells,
                  evalAlphas, evalBetas, seenMax, seenMin >>
  /\ UNCHANGED relVars
  /\ UNCHANGED tableVars
  /\ UNCHANGED cellVars
  /\ UNCHANGED xml

\* the best point kept after comparing current with bestSoFar
KeepBest(current, best) == current

\* one pass of the inner loop: the cell (a, b) is evaluated by
\* calculateObjectiveFn and compared with bestSoFar; b advances
GridCell ==
  /\ pc = "inner"
  /\ DblLeq(b, upper_b)
  /\ \E res \in GridInference, mse_fdr \in MseVals, roc50 \in RocVals :
     \E indices \in SortIndices(res.probabilityR) :
       LET out == buildOutput(NewGraph(a, b, res), indices)
           current == [populateTPandFNLists(GridPoint(a, b), out, proteinsToPeptides)
                         EXCEPT !.objectiveFnValue = ObjectiveFn(Lambda, mse_fdr, roc50)]
           obj == current.objectiveFnValue
       IN
       /\ evalAlphas' = evalAlphas \cup {a}
       /\ evalBetas' = evalBetas \cup {b}
       /\ IF a = Unset \/ b = Unset
            THEN \* assertions of calculateObjectiveFn
                 /\ pc' = "aborted"
                 /\ UNCHANGED << alpha, beta, proteinGraph, bestSoFar, b,
                                 nCells, seenMax, seenMin >>
                 /\ UNCHANGED cellVars
            ELSE
              /\ alpha' = a
              /\ beta' = b
              /\ proteinGraph' = NewGraph(a, b, res)
              /\ IF Len(res.probabilityR) = 0
                   THEN \* assertion of buildOutput
                        /\ pc' = "aborted"
                        /\ UNCHANGED << bestSoFar, b, nCells, seenMax,
                                        seenMin >>
                        /\ UNCHANGED cellVars
                   ELSE
                     /\ nCells' = nCells + 1
                     /\ seenMax' = IF nCells = 0 \/ obj > seenMax THEN obj ELSE seenMax
                     /\ seenMin' = IF nCells = 0 \/ obj < seenMin THEN obj ELSE seenMin
                     /\ point' = current
                     /\ tpSeen' = tpSeen \cup
                          {<< current.truePositives, current.falsePositives >>}
                     /\ IF ~GreaterAsserts(current, bestSoFar)
                          THEN \* assertions of operator>
                               /\ pc' = "aborted"
                               /\ UNCHANGED << bestSoFar, b >>
                          ELSE /\ bestSoFar' = KeepBest(current, bestSoFar)
                               /\ b' = DblAdd(b, Step)
                               /\ pc' = "inner"
  /\ UNCHANGED << output, a, lower_a, upper_a, lower_b, upper_b, alpha0, beta0 >>
  /\ UNCHANGED relVars
  /\ UNCHANGED tableVars
  /\ UNCHANGED xml

\* the inner loop ends: a advances
GridInnerExit ==
  /\ pc = "inner"
  /\ ~DblLeq(b, upper_b)
  /\ a' = DblAdd(a, Step)
  /\ pc' = "outer"
  /\ UNCHANGED << alpha, beta, proteinGraph, output, b, lower_a, upper_a,
                  lower_b, upper_b, bestSoFar, alpha0, beta0, nCells,
                  evalAlphas, evalBetas, seenMax, seenMin >>
  /\ UNCHANGED relVars
  /\ UNCHANGED tableVars
  /\ UNCHANGED cellVars
  /\ UNCHANGED xml

\* calculateProteinProb without its two assertions: the engine is built and
\* run whatever alpha and beta are
ProteinProbPass_noAssert(res, indices) ==
  /\ proteinGraph' = NewGraph(alpha, beta, res)
  /\ IF Len(res.probabilityR) = 0
       THEN /\ pc' = "aborted"
            /\ UNCHANGED output
       ELSE /\ output' = buildOutput(NewGraph(alpha, beta, res), indices)
            /\ pc' = "done"

\* calculateProteinProb from its two assertions on: a new graph is built
\* from alpha and beta, the engine returns res, buildOutput sorts by indices
ProteinProbPass(res, indices) ==
  IF alpha = Unset \/ beta = Unset
    THEN /\ pc' = "aborted"
         /\ UNCHANGED << proteinGraph, output >>
    ELSE /\ proteinGraph' = NewGraph(alpha, beta, res)
         /\ IF Len(res.probabilityR) = 0
              THEN /\ pc' = "aborted"
                   /\ UNCHANGED output
              ELSE /\ output' = buildOutput(NewGraph(alpha, beta, res), indices)
                   /\ pc' = "done"

\* calculateProteinProb(true) after gridSearchAlphaBeta returned
FinalPass ==
  /\ pc = "final"
  /\ \E res \in GridInference : \E indices \in SortIndices(res.probabilityR) :
       ProteinProbPass(res, indices)
  /\ UNCHANGED << alpha, beta, a, b, lower_a, upper_a, lower_b, upper_b,
                  bestSoFar, alpha0, beta0, nCells, evalAlphas, evalBetas,
                  seenMax, seenMin >>
  /\ UNCHANGED relVars
  /\ UNCHANGED tableVars
  /\ UNCHANGED cellVars
  /\ UNCHANGED xml

\* the protein ids of an output in the order writeOutputToXML visits them:
\* rank by rank, and within a rank in the order of the group's names
RECURSIVE FlatIds(_, _)
FlatIds(out, k) ==
  IF k = 0 THEN << >>
  ELSE FlatIds(out, k - 1) \o
       SelectSeq(ProteinOrder, LAMBDA prot : prot \in out.protein_ids[k])

\* the positions of ids whose protein has no entry in the table: there
\* proteinsToPeptides.find(protein_id) is end(), which is dereferenced
MissingAt(ids, table) == { i \in 1..Len(ids) : ids[i] \notin DOMAIN table }

\* the assertion of writeXML_writeAssociatedPeptides on the peptides of an entry
PeptidesNameProtein(prot, table) ==
  \A i \in 1..Len(table[prot]) : prot \in Deref(table[prot][i]).proteinIds

\* what the build may do once end() is dereferenced: stop in the protein it
\* was writing, fail the assertion on a peptide read from there, or go on
\* and close the file
DerefEndOutcomes == {"crashed", "aborted", "garbage"}

\* ProteinProbEstimator::writeOutputToXML(xmlOutputFN, output)
writeOutputToXML ==
  /\ pc = "done"
  /\ xml.status = "none"
  /\ LET ids == FlatIds(output, Len(output.protein_ids))
         missing == MissingAt(ids, proteinsToPeptides)
         first == CHOOSE i \in missing : \A j \in missing : i <= j
     IN  IF missing = {}
           THEN IF \A i \in 1..Len(ids) : PeptidesNameProtein(ids[i], proteinsToPeptides)
                  THEN xml' = [status |-> "written", proteins |-> ids]
                  ELSE xml' = [status |-> "aborted", proteins |-> << >>]
           ELSE \E outcome \in DerefEndOutcomes :
                  xml' = [status |-> outcome,
                          proteins |-> IF outcome = "garbage" THEN ids
                                       ELSE SubSeq(ids, 1, first)]
  /\ UNCHANGED estimatorVars
  /\ UNCHANGED relVars
  /\ UNCHANGED tableVars
  /\ UNCHANGED cellVars

Next ==
  \/ InitializeCall
  \/ GridSearchBegin
  \/ GridOuterLoop
  \/ GridCell
  \/ GridInnerExit
  \/ FinalPass
  \/ writeOutputToXML

Spec == Init /\ [][Next]_vars

(***************************************************************************)
(* calculateProteinProb(false) called on a new estimator                    *)
(***************************************************************************)
CalculateProteinProb ==
  /\ pc = "idle"
  /\ ~peptideScores.null
  /\ \E res \in InferenceResults(MaxClasses) :
       \E indices \in SortIndices(res.probabilityR) :
         ProteinProbPass(res, indices)
  /\ UNCHANGED << alpha, beta, a, b, lower_a, upper_a, lower_b, upper_b,
                  bestSoFar, alpha0, beta0, nCells, evalAlphas, evalBetas,
                  seenMax, seenMin >>
  /\ UNCHANGED relVars
  /\ UNCHANGED tableVars
  /\ UNCHANGED cellVars
  /\ UNCHANGED xml

NextCalc ==
  \/ InitializeCall
  \/ CalculateProteinProb

SpecCalc == Init /\ [][NextCalc]_vars

(***************************************************************************)
(* IntraSetRelation                                                         *)
(***************************************************************************)
\* IntraSetRelation::registerRel(pep, prot); the loop visits each protein of
\* the set once and touches only that protein's entries
registerRel(pep, prot) ==
  /\ Len(calls) < MaxCalls
  /\ numPeptides' = IncrCount(numPeptides, pep)
  /\ numProteins' = [k \in DOMAIN numProteins \cup prot |->
                       IF k \in prot THEN IncrCount(numProteins, k)[k]
                                     ELSE numProteins[k]]
  /\ prot2pep' = [k \in DOMAIN prot2pep \cup prot |->
                    IF k \in prot THEN Subscript(prot2pep, k)[k] \cup {pep}
                                  ELSE prot2pep[k]]
  /\ calls' = Append(calls, << pep, prot >>)
  /\ UNCHANGED maxn
  /\ UNCHANGED estimatorVars
  /\ UNCHANGED tableVars
  /\ UNCHANGED cellVars
  /\ UNCHANGED xml

\* the least element instead of the greatest
MaxOf_min(S) == IF S = {} THEN 0 ELSE CHOOSE x \in S : \A y \in S : x <= y

\* the greatest element of a set of naturals, 0 for the empty set (maxn)
MaxOf(S) == IF S = {} THEN 0 ELSE CHOOSE x \in S : \A y \in S : y <= x

\* IntraSetRelation::getPepSites(prot)
getPepSites(prot) ==
  /\ prot2pep' = [k \in DOMAIN prot2pep \cup prot |->
                    IF k \in prot THEN Subscript(prot2pep, k)[k] ELSE prot2pep[k]]
  /\ maxn' = MaxOf({ Cardinality(Subscript(prot2pep, k)[k]) : k \in prot })
  /\ UNCHANGED << numPeptides, numProteins, calls >>
  /\ UNCHANGED estimatorVars
  /\ UNCHANGED tableVars
  /\ UNCHANGED cellVars
  /\ UNCHANGED xml

RegisterRelCall == \E pep \in Peptides, prot \in SUBSET RelProteins : registerRel(pep, prot)

GetPepSitesCall == \E prot \in SUBSET RelProteins : getPepSites(prot)

NextRel ==
  \/ RegisterRelCall
  \/ GetPepSitesCall

SpecRel == Init /\ [][NextRel]_vars

(***************************************************************************)
(* initialize called again, populateTPandFNLists on the table               *)
(***************************************************************************)
\* the number of peptides in the first n sets of scores
RECURSIVE PeptidesIn(_, _)
PeptidesIn(inps, n) == IF n = 0 THEN 0 ELSE PeptidesIn(inps, n - 1) + Len(inps[n])

\* an initialize call, the first or a later one
RebuildCall ==
  /\ pc = "idle"
  /\ Len(inputs) < MaxBuilds
  /\ \E fullset \in Fullsets(MaxPeptides - PeptidesIn(inputs, Len(inputs))) :
       initialize(fullset)

\* populateTPandFNLists on a new gridPoint, as calculateObjectiveFn calls it
ClassifyCall ==
  /\ pc = "idle"
  /\ ListsEmpty(GridPoint(PinnedAlpha, PinnedBeta))
  /\ point' = populateTPandFNLists(GridPoint(PinnedAlpha, PinnedBeta), output,
                                   proteinsToPeptides)
  /\ UNCHANGED tpSeen
  /\ UNCHANGED estimatorVars
  /\ UNCHANGED relVars
  /\ UNCHANGED tableVars
  /\ UNCHANGED xml

NextTable ==
  \/ RebuildCall
  \/ ClassifyCall

SpecTable == Init /\ [][NextTable]_vars

(***************************************************************************)
(* Properties of the grid search (Spec)                                     *)
(***************************************************************************)
\* C1: after every evaluated cell the retained bestSoFar has the greatest
\* objective value among the cells evaluated so far, and a cell after the
\* first replaces bestSoFar only when its objective is strictly greater than
\* the retained one (ties and smaller values keep the earlier cell).
C1_RetainsGreatest ==
  [][ nCells' = nCells + 1 =>
        /\ bestSoFar'.objectiveFnValue = seenMax'
        /\ (nCells > 0 /\ bestSoFar' # bestSoFar =>
              bestSoFar'.objectiveFnValue > bestSoFar.objectiveFnValue) ]_vars

\* C2: when calculateProteinProb(true) has completed, the estimator's alpha
\* and beta are those of the retained cell, that cell is a winning one (its
\* objective is the greatest evaluated), and the graph of the final pass was
\* built with exactly these two values.
C2_CommitsWinner ==
  pc = "done" =>
    /\ alpha = bestSoFar.alpha
    /\ beta = bestSoFar.beta
    /\ bestSoFar.objectiveFnValue = seenMax
    /\ proteinGraph.alpha = alpha
    /\ proteinGraph.beta = beta

\* C3: the cell selected by a finished grid search has the minimum objective
\* value of all evaluated cells.
C3_SelectsMinimum ==
  pc \in {"final", "done"} => bestSoFar.objectiveFnValue = seenMin

\* C4: with beta pinned and alpha unset, every evaluated cell has the pinned
\* beta, and after the calibration beta is still the pinned value and alpha
\* was searched over its 16 values.
C4_PinnedBetaExcluded ==
  (alpha0 = Unset /\ beta0 # Unset) =>
    /\ evalBetas \subseteq {beta0}
    /\ (pc = "done" => beta = beta0 /\ Cardinality(evalAlphas) = 16)

\* C5: when a grid cell's inference result has zero equivalence classes the
\* calibration aborts there, no Output has been produced, and alpha and beta
\* are the values they had before the calibration started.
C5_AbortLeavesNoPartialState ==
  [][ (pc = "inner" /\ pc' = "aborted") =>
        /\ alpha' = alpha0
        /\ beta' = beta0
        /\ ~output'.built ]_vars

\* C6: with neither parameter pinned, a finished grid search has evaluated
\* 272 cells, each once: 16 values of alpha times 17 values of beta.
C6_FullGrid ==
  (pc \in {"final", "done"} /\ alpha0 = Unset /\ beta0 = Unset) =>
    /\ Cardinality(evalAlphas) = 16
    /\ Cardinality(evalBetas) = 17
    /\ nCells = 272

(***************************************************************************)
(* Properties of buildOutput (SpecCalc)                                     *)
(***************************************************************************)
\* C7: in every Output, qvalues[0] = peps[0] and, for every later rank k
\* (counted from 0), qvalues[k] = (k * qvalues[k-1] + peps[k]) / (k + 1).
C7_QValueRecurrence ==
  output.built =>
    LET p == output.peps
        q == output.qvalues
    IN  /\ q[1] = Quot(p[1], 1)
        /\ \A k \in 2..Len(p) :
             q[k] = Quot((k - 1) * q[k-1][1] + p[k] * q[k-1][2], q[k-1][2] * k)

\* the example of the specification: posterior errors 0.1, 0.2, 0.3 give the
\* q-values 0.1, 0.15 (= 3/2 tenths), 0.2
C7_Witness ==
  /\ output.built
  /\ output.peps = << 1, 2, 3 >>
  /\ output.qvalues = << << 1, 1 >>, << 3, 2 >>, << 2, 1 >> >>

\* C8: every Output has three arrays of the length of the inference result,
\* its peps are non-decreasing, and one permutation of the input ranks maps
\* both the estimates and the protein-id groups onto the output.
C8_OutputAligned ==
  output.built =>
    LET n == Len(proteinGraph.probabilityR)
    IN  /\ Len(output.peps) = n
        /\ Len(output.protein_ids) = n
        /\ Len(output.qvalues) = n
        /\ \A k \in 1..(n - 1) : output.peps[k] <= output.peps[k+1]
        /\ \E f \in Perms(n) : \A k \in 1..n :
             /\ output.peps[k] = proteinGraph.probabilityR[f[k]]
             /\ output.protein_ids[k] = proteinGraph.groupProtNames[f[k]]

\* an Output whose classes were really reordered, groups included
C8_Witness ==
  /\ output.built
  /\ proteinGraph.probabilityR = << 3, 1, 2 >>
  /\ proteinGraph.groupProtNames = << {"P1"}, {"P2", "P3"}, {"P1"} >>
  /\ output.protein_ids = << {"P2", "P3"}, {"P1"}, {"P1"} >>

(***************************************************************************)
(* Properties of IntraSetRelation (SpecRel)                                 *)
(***************************************************************************)
\* the count a map holds for a key, 0 when the key has no entry
CountOf(m, key) == IF key \in DOMAIN m THEN m[key] ELSE 0
\* the peptide set a map holds for a protein, empty when it has no entry
PepSetOf(m, key) == IF key \in DOMAIN m THEN m[key] ELSE {}

\* C9: a peptide's count is the number of registerRel calls made for it, a
\* protein's count is the number of calls whose protein set contained it, and
\* a peptide is in a protein's peptide set exactly when some call registered
\* it with that protein.
C9_IndexReflectsCalls ==
  /\ \A pep \in Peptides :
       CountOf(numPeptides, pep) =
         Cardinality({ i \in 1..Len(calls) : calls[i][1] = pep })
  /\ \A prot \in RelProteins :
       CountOf(numProteins, prot) =
         Cardinality({ i \in 1..Len(calls) : prot \in calls[i][2] })
  /\ \A prot \in RelProteins, pep \in Peptides :
       pep \in PepSetOf(prot2pep, prot) <=>
         \E i \in 1..Len(calls) : calls[i][1] = pep /\ prot \in calls[i][2]

\* a peptide registered twice, once of them with two proteins
C9_Witness ==
  /\ Len(calls) = 3
  /\ CountOf(numPeptides, "pepA") = 2
  /\ \E i \in 1..Len(calls) : calls[i] = << "pepA", {"P1", "P2"} >>
  /\ CountOf(numProteins, "P1") = 3

\* C10: a getPepSites call leaves numPeptides, numProteins and prot2pep, its
\* set of keys included, as they were.
C10_GetPepSitesPure ==
  [][ GetPepSitesCall => UNCHANGED << numPeptides, numProteins, prot2pep >> ]_vars

(***************************************************************************)
(* Properties of the protein-to-peptides table (SpecTable)                  *)
(***************************************************************************)
\* the peptide list the table holds for a protein, empty without an entry
PeptideListOf(table, prot) == IF prot \in DOMAIN table THEN table[prot] ELSE << >>

\* C11: after a second initialize each protein's list holds exactly the
\* peptides of the second set of scores that name the protein, once each,
\* and nothing of the first set.
C11_RebuildClearsTable ==
  Len(inputs) = 2 =>
    \A prot \in TableProteins :
      LET list == PeptideListOf(proteinsToPeptides, prot)
      IN  /\ Range(list) =
               { << 2, i >> : i \in { j \in 1..Len(inputs[2]) :
                                        prot \in inputs[2][j].proteinIds } }
          /\ Cardinality(Range(list)) = Len(list)

\* C12: populateTPandFNLists puts a protein of the table into truePositives
\* exactly when one of its peptides has label 1, and into falsePositives
\* exactly when one of its peptides has another label; a protein with both
\* kinds is in both lists.
C12_ClassifyByLabels ==
  [][ point' # point =>
        \A prot \in Range(ProteinOrder) :
          LET labels == { Deref(ref).label :
                            ref \in Range(PeptideListOf(proteinsToPeptides, prot)) }
          IN  /\ prot \in Range(point'.truePositives) <=> 1 \in labels
              /\ prot \in Range(point'.falsePositives) <=> labels \ {1} # {} ]_vars

\* a protein with a target and a decoy peptide, found in both lists
C12_Witness ==
  /\ Len(inputs) = 1
  /\ inputs[1] = << [label |-> 1, proteinIds |-> {"P1"}],
                    [label |-> -1, proteinIds |-> {"P1", "P2"}] >>
  /\ point.truePositives = << "P1" >>
  /\ point.falsePositives = << "P1", "P2" >>

(***************************************************************************)
(* Further properties of the grid search (Spec)                             *)
(***************************************************************************)
\* C13: the seed of bestSoFar is below every objective value, so the
\* comparison current > bestSoFar holds for the first evaluated cell whatever
\* its objective is, zero and negative values included.
C13_FirstCellBeatsSeed ==
  [][(nCells = 0 /\ nCells' = 1) => Greater(point', bestSoFar)]_vars

\* C14: with alpha and beta both pinned, initialize reports that no grid
\* search is needed, and a grid search evaluates the single cell (pinned
\* alpha, pinned beta) and leaves alpha and beta at the pinned values.
C14_BothPinnedSinglePoint ==
  (alpha0 # Unset /\ beta0 # Unset) =>
    /\ scheduleGridSearch \in {"none", "false"}
    /\ evalAlphas \subseteq {alpha0}
    /\ evalBetas \subseteq {beta0}
    /\ (pc \in {"final", "done"} => nCells = 1 /\ alpha = alpha0 /\ beta = beta0)

\* C15: with alpha pinned and beta unset, every evaluated cell has the pinned
\* alpha and a finished search has evaluated 17 cells, one per value of beta.
C15_PinnedAlphaFullBeta ==
  (alpha0 # Unset /\ beta0 = Unset) =>
    /\ evalAlphas \subseteq {alpha0}
    /\ (pc \in {"final", "done"} => Cardinality(evalBetas) = 17 /\ nCells = 17)

C17_DefaultsEnforced ==
  [][(pc = "idle" /\ pc' # "idle" /\ alpha = Unset /\ beta = Unset) =>
       /\ alpha' = DefaultAlpha
       /\ beta' = DefaultBeta
       /\ ~proteinGraph'.null
       /\ proteinGraph'.alpha = DefaultAlpha
       /\ proteinGraph'.beta = DefaultBeta]_vars

\* C18: when a protein id of the output has no entry in the table, writing
\* the XML neither crashes nor uses the missing entry.
C18_MissingEntryRecoverable ==
  (xml.status # "none" /\
     MissingAt(FlatIds(output, Len(output.protein_ids)), proteinsToPeptides) # {})
    => xml.status \notin DerefEndOutcomes

(***************************************************************************)
(* Properties of getPepSites (SpecRel)                                      *)
(***************************************************************************)
\* the distinct peptides registered to a protein by the calls made so far
RegisteredPeps(k) ==
  { calls[i][1] : i \in { j \in 1..Len(calls) : k \in calls[j][2] } }

\* C19: getPepSites on a set of proteins returns the greatest number of
\* distinct peptides registered to a protein of the set, and 0 when the set
\* is empty or none of its proteins was registered.
C19_MaxPeptideDegree ==
  [][\A prot \in SUBSET RelProteins :
       getPepSites(prot) =>
         /\ \A k \in prot : maxn' >= Cardinality(RegisteredPeps(k))
         /\ \/ \E k \in prot : maxn' = Cardinality(RegisteredPeps(k))
            \/ maxn' = 0 /\ \A k \in prot : RegisteredPeps(k) = {}]_vars

\* getPepSites returned 2 for a set holding a protein with two peptides and
\* a protein with one
C19_Witness ==
  /\ maxn = 2
  /\ Cardinality(RegisteredPeps("P1")) = 2
  /\ Cardinality(RegisteredPeps("P2")) = 1

====
